---- MODULE Spec2Model ----
(***************************************************************************)
(* Model of api/index.js: an Xtream-Codes style proxy in front of a single *)
(* upstream M3U playlist.                                                  *)
(*                                                                         *)
(* Strings are sequences of lexical tokens.  A token is either a single    *)
(* character ("=", ",", "#", "-", "1", ...) or a literal that the code     *)
(* only ever treats as a whole ("#EXTINF:", "#EXTM3U", "{{username}}",     *)
(* "tvg-name", a media URL, ...).  The JavaScript values null and          *)
(* undefined are sentinels that no string, list or object is equal to.     *)
(***************************************************************************)
EXTENDS Integers, Sequences, FiniteSets, TLC

VARIABLES
    ALLOW_USERS,   \* Map username -> password built once at start-up
    cache,         \* the module-level cache record
    clock,         \* Date.now()
    upstreamCalls, \* number of undiciRequest invocations so far
    req,           \* the in-flight HTTP requests, each with its position
    lines,         \* parser harness: the playlist lines of the input
    sep,           \* parser harness: the line terminator joining them
    text,          \* parser harness: the input text handed to parseM3U
    channels,      \* parser harness: the value returned by parseM3U
    ppc            \* parser harness: "input" while building, "parsed" after

vars == <<ALLOW_USERS, cache, clock, upstreamCalls, req,
          lines, sep, text, channels, ppc>>
serverVars == <<ALLOW_USERS, cache, clock, upstreamCalls, req>>
parserVars == <<lines, sep, text, channels, ppc>>

-----------------------------------------------------------------------------
(* JavaScript values                                                       *)

NullText == <<"<null>">>                \* null where a string may stand
Undefined == <<"<undefined>">>          \* undefined where a string may stand
NullObj == [null |-> TRUE]              \* null where an object may stand
NullList == <<NullObj>>                 \* null where an array may stand

\* ToBoolean of a string-or-null-or-undefined value
Truthy(s) == s # NullText /\ s # Undefined /\ s # <<>>

\* a || b on such values
Or(a, b) == IF Truthy(a) THEN a ELSE b

-----------------------------------------------------------------------------
(* Tokens                                                                  *)

LF == "LF"
CR == "CR"
SP == "SP"
QUOTE == "QUOTE"
EXTINF == "#EXTINF:"
EXTM3U == "#EXTM3U"
TokUser == "{{username}}"
TokPass == "{{password}}"

\* tokens removed by String.prototype.trim
WhiteToks == {LF, CR, SP}

\* tokens whose first character is '#'
HashToks == {"#", EXTINF, EXTM3U}

\* tokens that are not made of word characters and hyphens only
NonWordToks == WhiteToks \cup HashToks \cup
    {QUOTE, "=", ",", ":", TokUser, TokPass,
     "http://x/a", "http://x/b", "http://x/c", "http://stream/1", "# Access denied",
     "# Error: ", "Upstream M3U fetch failed: ", "socket hang up"}

\* the regular expression classes \w (first character) and [\w-]
IsWordStart(t) == t \notin NonWordToks /\ t # "-"
IsWordPart(t) == t \notin NonWordToks

-----------------------------------------------------------------------------
(* String primitives                                                       *)

\* String.prototype.trim: from the first to the last non-blank token
Trim(s) ==
    LET keep == {i \in 1..Len(s) : s[i] \notin WhiteToks} IN
    IF keep = {} THEN <<>>
    ELSE SubSeq(s, CHOOSE i \in keep : \A j \in keep : i <= j,
                   CHOOSE i \in keep : \A j \in keep : j <= i)

\* String.prototype.startsWith for a one-token prefix
StartsWith(s, t) == s # <<>> /\ Head(s) = t

\* line.startsWith("#")
StartsWithHash(s) == s # <<>> /\ Head(s) \in HashToks

\* String.prototype.indexOf for a one-token needle, 1-based; 0 when absent
IndexOf(s, t) ==
    IF \E i \in 1..Len(s) : s[i] = t
    THEN CHOOSE i \in 1..Len(s) : s[i] = t /\ \A j \in 1..(i - 1) : s[j] # t
    ELSE 0

\* text.split(/\r?\n/): cut at every LF, dropping one CR right before it
SplitLines(s) ==
    LET cuts == {i \in 1..Len(s) : s[i] = LF}
        \* position of the k-th LF; 0 before the first, Len(s)+1 after the last
        cut(k) == IF k = 0 THEN 0
                  ELSE IF k > Cardinality(cuts) THEN Len(s) + 1
                  ELSE CHOOSE i \in cuts : Cardinality({h \in cuts : h < i}) = k - 1
        piece(k) ==
            LET from == cut(k - 1) + 1
                upto == cut(k) - 1
            IN IF cut(k) <= Len(s) /\ upto >= from /\ s[upto] = CR
               THEN SubSeq(s, from, upto - 1)
               ELSE SubSeq(s, from, upto)
    IN [k \in 1..(Cardinality(cuts) + 1) |-> piece(k)]

\* String(n) for a natural number: its decimal digits
Digit(d) == <<"0", "1", "2", "3", "4", "5", "6", "7", "8", "9">>[d + 1]

RECURSIVE ToStr(_)
ToStr(n) == IF n < 10 THEN <<Digit(n)>> ELSE Append(ToStr(n \div 10), Digit(n % 10))

-----------------------------------------------------------------------------
(* parseAttributes: scan key=QUOTE value QUOTE pairs left to right, the key *)
(* a word character followed by word characters and hyphens, the value any *)
(* run of characters other than the quote                                  *)

\* end of the run of [\w-] tokens that starts at p
RECURSIVE WordEnd(_, _)
WordEnd(s, p) ==
    IF p < Len(s) /\ IsWordPart(s[p + 1]) THEN WordEnd(s, p + 1) ELSE p

\* position of the closing quote of a value opening after position q, or 0
ClosingQuote(s, q) ==
    IF \E e \in (q + 1)..Len(s) : s[e] = QUOTE
    THEN CHOOSE e \in (q + 1)..Len(s) :
            s[e] = QUOTE /\ \A j \in (q + 1)..(e - 1) : s[j] # QUOTE
    ELSE 0

\* does the expression match with the key starting at p
MatchesAt(s, p) ==
    /\ p \in 1..Len(s)
    /\ IsWordStart(s[p])
    /\ LET k == WordEnd(s, p) IN
        /\ k + 2 <= Len(s)
        /\ s[k + 1] = "="
        /\ s[k + 2] = QUOTE
        /\ ClosingQuote(s, k + 2) # 0

\* attrs[m[1]] = m[2]
SetAttr(attrs, key, val) ==
    [k \in DOMAIN attrs \cup {key} |-> IF k = key THEN val ELSE attrs[k]]

\* the while ((m = re.exec(attrLine)) !== null) loop, resuming at `from`
RECURSIVE ScanAttrs(_, _, _)
ScanAttrs(s, from, attrs) ==
    IF \E p \in from..Len(s) : MatchesAt(s, p)
    THEN LET p == CHOOSE q \in from..Len(s) :
                    MatchesAt(s, q) /\ \A j \in from..(q - 1) : ~MatchesAt(s, j)
             k == WordEnd(s, p)
             e == ClosingQuote(s, k + 2)
         IN ScanAttrs(s, e + 1,
                      SetAttr(attrs, SubSeq(s, p, k), SubSeq(s, k + 3, e - 1)))
    ELSE attrs

parseAttributes(attrLine) == ScanAttrs(attrLine, 1, <<>>)

\* attrs[key] on the object built by parseAttributes
Attr(attrs, key) == IF key \in DOMAIN attrs THEN attrs[key] ELSE Undefined

-----------------------------------------------------------------------------
(* parseM3U                                                                *)

\* NewCurrent with the title taking precedence over tvg-name
NewCurrent_titleFirst(line) ==
    LET after == Tail(line)
        commaIdx == IndexOf(after, ",")
        meta == IF commaIdx >= 1 THEN Trim(SubSeq(after, 1, commaIdx - 1))
                ELSE Trim(after)
        title == IF commaIdx >= 1
                 THEN Trim(SubSeq(after, commaIdx + 1, Len(after)))
                 ELSE <<>>
        attrs == parseAttributes(meta)
    IN [name |-> Or(title,
                    Or(Attr(attrs, <<"tvg-name">>),
                       Or(Attr(attrs, <<"tvg-id">>), <<"Unnamed">>))),
        title |-> title,
        attrs |-> attrs,
        url |-> NullText]

\* the object literal assigned to `current` for a line starting "#EXTINF:"
NewCurrent(line) ==
    LET after == Tail(line)
        commaIdx == IndexOf(after, ",")
        meta == IF commaIdx >= 1 THEN Trim(SubSeq(after, 1, commaIdx - 1))
                ELSE Trim(after)
        title == IF commaIdx >= 1
                 THEN Trim(SubSeq(after, commaIdx + 1, Len(after)))
                 ELSE <<>>
        attrs == parseAttributes(meta)
    IN [name |-> Or(Attr(attrs, <<"tvg-name">>),
                    Or(title, Or(Attr(attrs, <<"tvg-id">>), <<"Unnamed">>))),
        title |-> title,
        attrs |-> attrs,
        url |-> NullText]

\* ParseLine keeping a pending entry when a second metadata line arrives
ParseLine_keepFirst(st, rawLine) ==
    LET line == Trim(rawLine) IN
    IF line = <<>> THEN st
    ELSE IF StartsWith(line, EXTINF)
         THEN IF st.current # NullObj THEN st
              ELSE [st EXCEPT !.current = NewCurrent(line)]
    ELSE IF st.current # NullObj /\ ~StartsWithHash(line)
         THEN [channels |-> Append(st.channels, [st.current EXCEPT !.url = line]),
               current |-> NullObj]
    ELSE st

\* ParseLine leaving the entry pending after it was closed
ParseLine_noClear(st, rawLine) ==
    LET line == Trim(rawLine) IN
    IF line = <<>> THEN st
    ELSE IF StartsWith(line, EXTINF)
         THEN [st EXCEPT !.current = NewCurrent(line)]
    ELSE IF st.current # NullObj /\ ~StartsWithHash(line)
         THEN [channels |-> Append(st.channels, [st.current EXCEPT !.url = line]),
               current |-> st.current]
    ELSE st

\* one iteration of the for loop; st holds the locals `channels` and `current`
ParseLine(st, rawLine) ==
    LET line == Trim(rawLine) IN
    IF line = <<>> THEN st
    ELSE IF StartsWith(line, EXTINF)
         THEN [st EXCEPT !.current = NewCurrent(line)]
    ELSE IF st.current # NullObj /\ ~StartsWithHash(line)
         THEN [channels |-> Append(st.channels, [st.current EXCEPT !.url = line]),
               current |-> NullObj]
    ELSE st

RECURSIVE ParseLoop(_, _, _)
ParseLoop(ls, i, st) ==
    IF i > Len(ls) THEN st ELSE ParseLoop(ls, i + 1, ParseLine(st, ls[i]))

\* ToEntry with the default applied to a missing group-title only, as the
\* nullish operator would
ToEntry_nullish(c, idx) ==
    [id |-> ToStr(idx + 1),
     stream_id |-> idx + 1,
     name |-> c.name,
     title |-> c.title,
     tvg_id |-> Or(Attr(c.attrs, <<"tvg-id">>), NullText),
     tvg_logo |-> Or(Attr(c.attrs, <<"tvg-logo">>), NullText),
     group_title |-> IF Attr(c.attrs, <<"group-title">>) = Undefined
                     THEN <<"Other">> ELSE Attr(c.attrs, <<"group-title">>),
     direct_source |-> c.url]

\* the callback of channels.map, idx counted from 0
ToEntry(c, idx) ==
    [id |-> ToStr(idx + 1),
     stream_id |-> idx + 1,
     name |-> c.name,
     title |-> c.title,
     tvg_id |-> Or(Attr(c.attrs, <<"tvg-id">>), NullText),
     tvg_logo |-> Or(Attr(c.attrs, <<"tvg-logo">>), NullText),
     group_title |-> Or(Attr(c.attrs, <<"group-title">>), <<"Other">>),
     direct_source |-> c.url]

\* ParseChannels emitting the entry still pending at the end of the input
ParseChannels_flush(t) ==
    LET st == ParseLoop(SplitLines(t), 1, [channels |-> <<>>, current |-> NullObj])
    IN IF st.current # NullObj THEN Append(st.channels, st.current)
       ELSE st.channels

\* what the loop leaves in `channels`
ParseChannels(t) ==
    ParseLoop(SplitLines(t), 1, [channels |-> <<>>, current |-> NullObj]).channels

\* parseM3U numbering the entries from the index after their own
parseM3U_offByOne(t) ==
    LET cs == ParseChannels(t) IN [k \in 1..Len(cs) |-> ToEntry(cs[k], k)]

parseM3U(t) ==
    LET cs == ParseChannels(t) IN [k \in 1..Len(cs) |-> ToEntry(cs[k], k - 1)]

-----------------------------------------------------------------------------
(* Configuration and the shared cache                                      *)

\* time is counted in units of half the time-to-live
CACHE_TTL_MS == 2

\* user names and passwords
Usernames == {<<>>, <<"alice">>, <<"bob">>}
Passwords == {<<>>, <<"secret">>}

\* the username/password pairs a request may carry
Credentials == { <<<<"alice">>, <<"secret">>>>, <<<<"bob">>, <<>>>> }

\* the maps parseAllowUsers can build here: none, alice:secret, and
\* alice: with bob: (both with an empty password); keys are never empty
AllowLists ==
    { <<>>,
      [u \in {<<"alice">>} |-> <<"secret">>],
      [u \in {<<"alice">>, <<"bob">>} |-> <<>>] }

\* let cache = { m3uText: null, parsed: null, fetchedAt: 0 }
EmptyCache == [m3uText |-> NullText, parsed |-> NullList, fetchedAt |-> 0]

\* ALLOW_USERS.get(user)
MapGet(map, key) == IF key \in DOMAIN map THEN map[key] ELSE Undefined

\* okUserPass accepting any password of a listed user
okUserPass_userOnly(user, pass) ==
    IF Cardinality(DOMAIN ALLOW_USERS) = 0 THEN TRUE
    ELSE MapGet(ALLOW_USERS, user) # Undefined

okUserPass(user, pass) ==
    IF Cardinality(DOMAIN ALLOW_USERS) = 0 THEN TRUE
    ELSE LET allowedPass == MapGet(ALLOW_USERS, user) IN
         allowedPass # Undefined /\ allowedPass = Or(pass, <<>>)

\* Fresh without the age test
Fresh_anyAge(now) == Truthy(cache.m3uText)

\* Fresh with the age compared by <= instead of <
Fresh_inclusive(now) ==
    Truthy(cache.m3uText) /\ now - cache.fetchedAt <= CACHE_TTL_MS

\* the test that lets fetchM3U answer from the cache
Fresh(now) ==
    Truthy(cache.m3uText) /\ now - cache.fetchedAt < CACHE_TTL_MS

\* CacheStore leaving the previous parse in place
CacheStore_stale(t, now) ==
    [m3uText |-> t, parsed |-> cache.parsed, fetchedAt |-> now]

\* CacheStore dropping the write of a call that started no later than the
\* call whose result is in the cache
CacheStore_firstWins(t, now) ==
    IF cache.fetchedAt >= now THEN cache
    ELSE [m3uText |-> t, parsed |-> parseM3U(t), fetchedAt |-> now]

\* the three assignments that follow a body read
CacheStore(t, now) ==
    [m3uText |-> t, parsed |-> parseM3U(t), fetchedAt |-> now]

-----------------------------------------------------------------------------
(* The upstream                                                            *)

StatusCodes == {200, 399, 400}

TransportError == <<"socket hang up">>

\* new Error(`Upstream M3U fetch failed: ${res.statusCode}`).message
StatusError(code) == <<"Upstream M3U fetch failed: ">> \o ToStr(code)

\* the playlist of the end-to-end example
BodyNews ==
    <<EXTM3U, LF, EXTINF, "-", "1", SP, "tvg-name", "=", QUOTE, "News", QUOTE,
      SP, "group-title", "=", QUOTE, "News", QUOTE, ",", "News", SP, "HD", LF,
      "http://stream/1">>

\* a playlist of two entries without the header line, carrying both
\* placeholders
BodyPlain ==
    <<EXTINF, "-", "1", ",", "B", LF, "http://x/b", TokUser, ":", TokPass, LF,
      EXTINF, "-", "1", SP, "tvg-id", "=", QUOTE, "c1", QUOTE,
      SP, "group-title", "=", QUOTE, "Kids", QUOTE, ",", "C", LF,
      "http://x/c">>

\* the bodies the upstream may answer with
Bodies == {<<>>, BodyNews, BodyPlain}

-----------------------------------------------------------------------------
(* Response shaping                                                        *)

\* String.prototype.replaceAll for a one-token pattern: every occurrence is
\* replaced, left to right, and the replacement is not scanned again
RECURSIVE ReplaceAll(_, _, _)
ReplaceAll(s, tok, rep) ==
    IF s = <<>> THEN <<>>
    ELSE IF Len(s) = 1 THEN (IF s[1] = tok THEN rep ELSE s)
    ELSE LET half == Len(s) \div 2 IN
         ReplaceAll(SubSeq(s, 1, half), tok, rep)
         \o ReplaceAll(SubSeq(s, half + 1, Len(s)), tok, rep)

\* the two placeholder substitutions of /get.php
Personalize(m3u, username, password) ==
    ReplaceAll(ReplaceAll(m3u, TokUser, username), TokPass, password)

\* GetBody without the header check
GetBody_noPrefix(m3u, username, password) ==
    Personalize(m3u, username, password)

\* the body /get.php sends for the playlist m3u
GetBody(m3u, username, password) ==
    LET personalized == Personalize(m3u, username, password)
    IN IF ~StartsWith(personalized, EXTM3U)
       THEN <<EXTM3U, LF>> \o personalized
       ELSE personalized

AccessDenied == <<EXTM3U, LF, "# Access denied">>

\* `#EXTM3U\n# Error: ${message}`
GetErrorBody(message) == <<EXTM3U, LF, "# Error: ">> \o message

\* ToChannel with the group title and the tvg-id in each other's place
ToChannel_swapped(c) ==
    [name |-> c.name,
     stream_id |-> c.stream_id,
     stream_type |-> "live",
     stream_icon |-> c.tvg_logo,
     epg_channel_id |-> c.group_title,
     category_id |-> c.tvg_id,
     custom_sid |-> NullText,
     direct_source |-> c.direct_source]

\* the callback mapping a parsed entry to an available_channels element;
\* the wall-clock field `added` is left out
ToChannel(c) ==
    [name |-> c.name,
     stream_id |-> c.stream_id,
     stream_type |-> "live",
     stream_icon |-> c.tvg_logo,
     epg_channel_id |-> c.tvg_id,
     category_id |-> c.group_title,
     custom_sid |-> NullText,
     direct_source |-> c.direct_source]

\* (cache.parsed || []).map(...)
AvailableChannels(parsed) ==
    LET ps == IF parsed = NullList THEN <<>> ELSE parsed
    IN [k \in 1..Len(ps) |-> ToChannel(ps[k])]

-----------------------------------------------------------------------------
(* Requests                                                                *)

\* two request slots; a new request takes the first free one
Reqs == {1, 2}
MaxClock == 3
MaxCalls == 2

Free(r) == req[r].pc \in {"idle", "done"}
FirstFree(r) == Free(r) /\ \A q \in Reqs : q < r => ~Free(q)

\* a slot with no request in it; `now` is the local of a fetchM3U call that
\* has not returned yet, and a request that has been answered keeps its
\* query and its response only
Idle ==
    [pc |-> "idle", ep |-> "none", user |-> <<>>, pass |-> <<>>, now |-> 0,
     src |-> "none", ret |-> NullText, err |-> NullText,
     status |-> 0, body |-> NullText, auth |-> -1, chans |-> NullList]

Init ==
    /\ ALLOW_USERS \in AllowLists
    /\ cache = EmptyCache
    /\ clock = 1
    /\ upstreamCalls = 0
    /\ req = [r \in Reqs |-> Idle]
    /\ lines = <<>>
    /\ sep = <<LF>>
    /\ text = <<>>
    /\ channels = NullList
    /\ ppc = "input"

\* fetchM3U up to its first await, called by the request whose record is rec
CallFetchM3U(r, rec) ==
    LET now == clock IN
    IF Fresh(now)
    THEN /\ req' = [req EXCEPT ![r] = [rec EXCEPT !.pc = "resume",
                        !.src = "cache", !.ret = cache.m3uText]]
         /\ UNCHANGED upstreamCalls
    ELSE /\ upstreamCalls < MaxCalls
         /\ upstreamCalls' = upstreamCalls + 1
         /\ req' = [req EXCEPT ![r] = [rec EXCEPT !.pc = "awaitRes",
                        !.now = now, !.src = "upstream"]]

\* StartGet fetching the playlist before looking at the credentials
StartGet_fetchFirst(r, username, password) ==
    /\ FirstFree(r)
    /\ CallFetchM3U(r, [Idle EXCEPT !.ep = "get", !.user = username,
                                    !.pass = password])
    /\ UNCHANGED <<ALLOW_USERS, cache, clock, parserVars>>

\* GET /get.php, up to the first await or the 401
StartGet(r, username, password) ==
    /\ FirstFree(r)
    /\ LET rec == [Idle EXCEPT !.ep = "get", !.user = username, !.pass = password]
       IN IF ~okUserPass(username, password)
          THEN /\ req' = [req EXCEPT ![r] = [rec EXCEPT !.pc = "done",
                              !.status = 401, !.body = AccessDenied]]
               /\ UNCHANGED upstreamCalls
          ELSE CallFetchM3U(r, rec)
    /\ UNCHANGED <<ALLOW_USERS, cache, clock, parserVars>>

\* StartApi fetching the playlist before looking at the credentials
StartApi_fetchFirst(r, username, password) ==
    /\ FirstFree(r)
    /\ CallFetchM3U(r, [Idle EXCEPT !.ep = "api", !.user = username,
                                    !.pass = password])
    /\ UNCHANGED <<ALLOW_USERS, cache, clock, parserVars>>

\* GET /player_api.php, up to the first await or the auth = 0 answer
StartApi(r, username, password) ==
    /\ FirstFree(r)
    /\ LET rec == [Idle EXCEPT !.ep = "api", !.user = username, !.pass = password]
           allowed == okUserPass(username, password)
       IN IF ~allowed
          THEN /\ req' = [req EXCEPT ![r] = [rec EXCEPT !.pc = "done",
                              !.status = 200, !.auth = 0, !.chans = <<>>]]
               /\ UNCHANGED upstreamCalls
          ELSE CallFetchM3U(r, rec)
    /\ UNCHANGED <<ALLOW_USERS, cache, clock, parserVars>>

\* await undiciRequest(...) rejects
RequestFails(r) ==
    /\ req[r].pc = "awaitRes"
    /\ req' = [req EXCEPT ![r].pc = "resume", ![r].now = 0,
                           ![r].err = TransportError]
    /\ UNCHANGED <<ALLOW_USERS, cache, clock, upstreamCalls, parserVars>>

\* ResponseArrives stamping the cache before the status check
ResponseArrives_stampFirst(r, code) ==
    /\ req[r].pc = "awaitRes"
    /\ cache' = [cache EXCEPT !.fetchedAt = req[r].now]
    /\ IF code >= 400
       THEN req' = [req EXCEPT ![r].pc = "resume", ![r].now = 0,
                               ![r].err = StatusError(code)]
       ELSE req' = [req EXCEPT ![r].pc = "awaitBody"]
    /\ UNCHANGED <<ALLOW_USERS, clock, upstreamCalls, parserVars>>

\* await undiciRequest(...) resolves with a status code
ResponseArrives(r, code) ==
    /\ req[r].pc = "awaitRes"
    /\ IF code >= 400
       THEN req' = [req EXCEPT ![r].pc = "resume", ![r].now = 0,
                               ![r].err = StatusError(code)]
       ELSE req' = [req EXCEPT ![r].pc = "awaitBody"]
    /\ UNCHANGED <<ALLOW_USERS, cache, clock, upstreamCalls, parserVars>>

\* await res.body.text() rejects
BodyFails(r) ==
    /\ req[r].pc = "awaitBody"
    /\ req' = [req EXCEPT ![r].pc = "resume", ![r].now = 0,
                           ![r].err = TransportError]
    /\ UNCHANGED <<ALLOW_USERS, cache, clock, upstreamCalls, parserVars>>

\* await res.body.text() resolves: store, parse, stamp, return
BodyArrives(r, t) ==
    /\ req[r].pc = "awaitBody"
    /\ cache' = CacheStore(t, req[r].now)
    /\ req' = [req EXCEPT ![r].pc = "resume", ![r].now = 0, ![r].ret = t]
    /\ UNCHANGED <<ALLOW_USERS, clock, upstreamCalls, parserVars>>

\* ResumeGet falling back to the cached text when fetchM3U threw
ResumeGet_staleOnError(r) ==
    /\ req[r].pc = "resume"
    /\ req[r].ep = "get"
    /\ LET sent == [Idle EXCEPT !.pc = "done", !.ep = "get",
                                 !.user = req[r].user, !.pass = req[r].pass]
           m3u == IF req[r].err # NullText THEN cache.m3uText ELSE req[r].ret
       IN IF ~Truthy(m3u) /\ req[r].err # NullText
          THEN req' = [req EXCEPT ![r] = [sent EXCEPT !.status = 500,
                           !.body = GetErrorBody(req[r].err)]]
          ELSE req' = [req EXCEPT ![r] = [sent EXCEPT !.status = 200,
                           !.body = GetBody(m3u, req[r].user, req[r].pass)]]
    /\ UNCHANGED <<ALLOW_USERS, cache, clock, upstreamCalls, parserVars>>

\* /get.php after await fetchM3U(): the playlist, or the catch block
ResumeGet(r) ==
    /\ req[r].pc = "resume"
    /\ req[r].ep = "get"
    /\ LET sent == [Idle EXCEPT !.pc = "done", !.ep = "get",
                                 !.user = req[r].user, !.pass = req[r].pass]
       IN IF req[r].err # NullText
          THEN req' = [req EXCEPT ![r] = [sent EXCEPT !.status = 500,
                           !.body = GetErrorBody(req[r].err)]]
          ELSE req' = [req EXCEPT ![r] = [sent EXCEPT !.status = 200,
                           !.body = GetBody(req[r].ret, req[r].user, req[r].pass)]]
    /\ UNCHANGED <<ALLOW_USERS, cache, clock, upstreamCalls, parserVars>>

\* /player_api.php after await fetchM3U(): the envelope, or the catch block
ResumeApi(r) ==
    /\ req[r].pc = "resume"
    /\ req[r].ep = "api"
    /\ LET allowed == okUserPass(req[r].user, req[r].pass)
           sent == [Idle EXCEPT !.pc = "done", !.ep = "api",
                                 !.user = req[r].user, !.pass = req[r].pass]
       IN IF req[r].err # NullText
          THEN req' = [req EXCEPT ![r] = [sent EXCEPT !.status = 500,
                           !.body = req[r].err]]
          ELSE req' = [req EXCEPT ![r] = [sent EXCEPT !.status = 200,
                           !.auth = IF allowed THEN 1 ELSE 0,
                           !.chans = IF allowed THEN AvailableChannels(cache.parsed)
                                     ELSE <<>>]]
    /\ UNCHANGED <<ALLOW_USERS, cache, clock, upstreamCalls, parserVars>>

\* Date.now() advances
Tick ==
    /\ clock < MaxClock
    /\ clock' = clock + 1
    /\ UNCHANGED <<ALLOW_USERS, cache, upstreamCalls, req, parserVars>>

Next ==
    \/ \E r \in Reqs, c \in Credentials : StartGet(r, c[1], c[2])
    \/ \E r \in Reqs, c \in Credentials : StartApi(r, c[1], c[2])
    \/ \E r \in Reqs : RequestFails(r)
    \/ \E r \in Reqs, code \in StatusCodes : ResponseArrives(r, code)
    \/ \E r \in Reqs : BodyFails(r)
    \/ \E r \in Reqs, t \in Bodies : BodyArrives(r, t)
    \/ \E r \in Reqs : ResumeGet(r)
    \/ \E r \in Reqs : ResumeApi(r)
    \/ Tick

Spec == Init /\ [][Next]_vars

-----------------------------------------------------------------------------
(* Properties of the cache, the access gate and the two endpoints          *)

\* request r calls fetchM3U in this step
FetchStarts(r) == Free(r) /\ req'[r] # req[r] /\ req'[r].src # "none"

\* C1: once a retrieval has succeeded, with any body text, a fetchM3U call
\* that starts less than CACHE_TTL_MS after the stored fetchedAt returns the
\* stored text and does not invoke the upstream retrieval.
C1_FreshCacheIsServed ==
    [][\A r \in Reqs :
          (/\ FetchStarts(r)
           /\ cache.m3uText # NullText
           /\ clock - cache.fetchedAt < CACHE_TTL_MS)
          => /\ req'[r].src = "cache"
             /\ req'[r].ret = cache.m3uText
             /\ upstreamCalls' = upstreamCalls]_vars

\* C2: a fetchM3U call whose retrieval fails ends in an error and returns
\* no text, its request is answered with status 500, and no step of the
\* call, from its start to the answer, changes the cache record.
C2_FailureLeavesCache ==
    [][\A r \in Reqs :
          (/\ req'[r] # req[r]
           /\ \/ req'[r].pc \in {"awaitRes", "awaitBody"}
              \/ req'[r].err # NullText
              \/ req[r].err # NullText)
          => /\ cache' = cache
             /\ req'[r].err # NullText =>
                   req'[r].pc = "resume" /\ req'[r].ret = NullText
             /\ req[r].err # NullText =>
                   req'[r].pc = "done" /\ req'[r].status = 500]_vars

\* a refresh fails after an earlier fetch had succeeded
C2_Witness ==
    \E r \in Reqs :
        /\ req[r].pc = "resume"
        /\ req[r].src = "upstream"
        /\ req[r].err = StatusError(400)
        /\ cache.m3uText = BodyNews
        /\ cache.fetchedAt + CACHE_TTL_MS <= clock

\* C3: in every reachable state the cache is either empty (both fields
\* null, fetchedAt 0) or holds a text together with the parse of that text.
C3_TextAndParsePaired ==
    \/ cache = EmptyCache
    \/ /\ cache.m3uText # NullText
       /\ cache.parsed # NullList
       /\ cache.parsed = parseM3U(cache.m3uText)

\* two overlapping calls have fetched different texts and both have stored
C3_Witness ==
    \E r, q \in Reqs :
        /\ r # q
        /\ req[r].src = "upstream" /\ req[q].src = "upstream"
        /\ clock < 1 + CACHE_TTL_MS
        /\ req[r].ret = BodyNews /\ req[q].ret = BodyPlain
        /\ cache.m3uText = BodyPlain

\* C4: a fetchM3U call on an empty cache, or at least CACHE_TTL_MS after
\* fetchedAt, invokes the retrieval once and never again; when the body
\* arrives the call stores it with its parse and the time the call started,
\* and returns that text.
C4_RefreshPolicy ==
    [][\A r \in Reqs :
          /\ (/\ FetchStarts(r)
              /\ \/ cache.m3uText = NullText
                 \/ clock - cache.fetchedAt >= CACHE_TTL_MS)
             => /\ req'[r].pc = "awaitRes"
                /\ req'[r].now = clock
                /\ req'[r].ret = NullText
                /\ upstreamCalls' = upstreamCalls + 1
          /\ (~Free(r) /\ req'[r] # req[r]) => upstreamCalls' = upstreamCalls
          /\ (/\ req[r].pc = "awaitBody"
              /\ req'[r].pc = "resume"
              /\ req'[r].err = NullText)
             => /\ req'[r].ret # NullText
                /\ cache' = [m3uText |-> req'[r].ret,
                             parsed |-> parseM3U(req'[r].ret),
                             fetchedAt |-> req[r].now]]_vars

\* a call that found the cache expired has replaced the text of an earlier one
C4_Witness ==
    \E r, q \in Reqs :
        /\ req[r].src = "upstream" /\ req[r].pc = "resume"
        /\ req[r].ret = BodyPlain
        /\ req[q].ret = BodyNews
        /\ cache = [m3uText |-> BodyPlain, parsed |-> parseM3U(BodyPlain),
                    fetchedAt |-> 1 + CACHE_TTL_MS]

\* the access policy as stated: open when the list is empty, else the user
\* must be listed with exactly this password
Authorized(user, pass) ==
    \/ ALLOW_USERS = <<>>
    \/ user \in DOMAIN ALLOW_USERS /\ ALLOW_USERS[user] = pass

\* C8: okUserPass(user, pass) is true for every pair when the allow-list is
\* empty, and otherwise exactly when the list maps user to pass; the
\* endpoints deny a request exactly when its pair is not authorized.
C8_AccessGate ==
    /\ \A u \in Usernames, p \in Passwords : okUserPass(u, p) <=> Authorized(u, p)
    /\ \A r \in Reqs :
          req[r].pc = "done" =>
             /\ req[r].ep = "get" =>
                   (req[r].status = 401 <=> ~Authorized(req[r].user, req[r].pass))
             /\ req[r].ep = "api" /\ req[r].status = 200 =>
                   (req[r].auth = 0 <=> ~Authorized(req[r].user, req[r].pass))

\* a listed user is turned away for a wrong password while an empty
\* password is accepted for a user listed with an empty one
C8_Witness ==
    /\ ALLOW_USERS # <<>>
    /\ req[1].pc = "done" /\ req[1].ep = "get" /\ req[1].status = 401
    /\ req[1].user = <<"alice">> /\ req[1].pass = <<"secret">>
    /\ req[2].pc = "done" /\ req[2].ep = "get" /\ req[2].status = 200
    /\ req[2].user = <<"bob">> /\ req[2].pass = <<>>

C9_Marker ==
    \A r \in Reqs :
        req[r].pc = "done" /\ req[r].ep = "get" =>
           /\ StartsWith(req[r].body, EXTM3U)
           /\ req[r].status \in {200, 401, 500}

C9_Prefix ==
    \A r \in Reqs :
        (/\ req[r].pc = "resume"
         /\ req[r].ep = "get"
         /\ req[r].err = NullText
         /\ req'[r].pc = "done")
        => LET P == Personalize(req[r].ret, req[r].user, req[r].pass) IN
           /\ req'[r].status = 200
           /\ StartsWith(P, EXTM3U) => req'[r].body = P
           /\ ~StartsWith(P, EXTM3U) => req'[r].body = <<EXTM3U, LF>> \o P

\* C9: every body sent by /get.php begins with #EXTM3U; on success it is
\* the personalized upstream text, with the marker and a line feed put in
\* front exactly when that text does not begin with the marker.
C9_BodyStartsWithMarker == []C9_Marker /\ [][C9_Prefix]_vars

\* a playlist without the header comes back with the header in front
C9_Witness ==
    \E r \in Reqs :
        /\ req[r].pc = "done" /\ req[r].ep = "get" /\ req[r].status = 200
        /\ req[r].user = <<"bob">>
        /\ Len(req[r].body) = Len(BodyPlain) + 1
        /\ SubSeq(req[r].body, 1, 12) =
              <<EXTM3U, LF, EXTINF, "-", "1", ",", "B", LF,
                "http://x/b", "bob", ":", LF>>

C10_Denied ==
    \A r \in Reqs :
        (/\ req[r].pc = "done"
         /\ req[r].ep = "api"
         /\ ~okUserPass(req[r].user, req[r].pass))
        => /\ req[r].status = 200
           /\ req[r].auth = 0
           /\ req[r].chans = <<>>

C10_Granted ==
    \A r \in Reqs :
        (/\ req[r].pc = "resume"
         /\ req[r].ep = "api"
         /\ req[r].err = NullText
         /\ req'[r].pc = "done")
        => /\ okUserPass(req[r].user, req[r].pass)
           /\ req'[r].status = 200
           /\ req'[r].auth = 1
           /\ cache.parsed # NullList
           /\ Len(req'[r].chans) = Len(cache.parsed)
           /\ \A k \in 1..Len(cache.parsed) :
                 /\ req'[r].chans[k].name = cache.parsed[k].name
                 /\ req'[r].chans[k].stream_id = cache.parsed[k].stream_id
                 /\ req'[r].chans[k].direct_source = cache.parsed[k].direct_source

\* C10: /player_api.php answers an unauthorized pair with status 200,
\* auth 0 and no channels, whatever the cache holds and whatever the
\* upstream does; for an authorized pair whose playlist was obtained it
\* answers auth 1 and one channel per entry of the parsed catalog.
C10_CatalogEnvelope == []C10_Denied /\ [][C10_Granted]_vars

\* a pair is turned away with the envelope while the upstream is failing,
\* and the same answer is given to the pair that is let in once it succeeds
C10_Witness ==
    \E r, q \in Reqs :
        /\ req[r].pc = "done" /\ req[r].ep = "api" /\ req[r].auth = 0
        /\ req[r].status = 200 /\ req[r].chans = <<>>
        /\ req[q].pc = "done" /\ req[q].ep = "api" /\ req[q].status = 500

\* C11: when the retrieval of an authorized request fails, on either
\* endpoint, the request is answered with status 500, by the playlist-shaped
\* error body on /get.php and by the bare error message on /player_api.php;
\* it is never answered from the cache, and the retrieval is not tried again
\* within the request.
C11_FailureSurfaces ==
    [][\A r \in Reqs :
          /\ (req[r].pc = "awaitRes" /\ req'[r].pc = "resume")
             => req'[r].err # NullText /\ req'[r].ret = NullText
          /\ (req[r].pc = "awaitBody" /\ req'[r].pc = "resume"
                 /\ req'[r].ret = NullText)
             => req'[r].err # NullText
          /\ (req[r].pc = "resume" /\ req[r].err # NullText /\ req'[r] # req[r])
             => /\ req'[r].pc = "done"
                /\ req'[r].status = 500
                /\ upstreamCalls' = upstreamCalls
                /\ req[r].ep = "get" =>
                      req'[r].body = <<EXTM3U, LF, "# Error: ">> \o req[r].err
                /\ req[r].ep = "api" =>
                      /\ req'[r].body = req[r].err
                      /\ req'[r].auth = -1
                      /\ req'[r].chans = NullList
          /\ req'[r].pc = "awaitRes" /\ req'[r] # req[r] => Free(r)]_vars

\* /get.php answers 500 although an expired text is still in the cache
C11_Witness ==
    \E r \in Reqs :
        /\ req[r].pc = "done" /\ req[r].ep = "get" /\ req[r].status = 500
        /\ req[r].body = GetErrorBody(StatusError(400))
        /\ cache.m3uText = BodyNews
        /\ cache.fetchedAt + CACHE_TTL_MS <= clock

\* C14: the available_channels of an authorized request has one element per
\* entry of the cached parse, in the same order, carrying the entry's name,
\* its stream_id, its group title as category_id, its tvg-id as
\* epg_channel_id and its URL as direct_source; the playlist of one line
\* with tvg-name News, group-title News and the URL http://stream/1 gives
\* one element with these three values.
C14_CatalogShaping ==
    [][\A r \in Reqs :
          (/\ req[r].pc = "resume"
           /\ req[r].ep = "api"
           /\ req'[r].pc = "done"
           /\ req'[r].auth = 1)
          => /\ cache.parsed # NullList
             /\ Len(req'[r].chans) = Len(cache.parsed)
             /\ \A k \in 1..Len(cache.parsed) :
                   /\ req'[r].chans[k].name = cache.parsed[k].name
                   /\ req'[r].chans[k].stream_id = cache.parsed[k].stream_id
                   /\ req'[r].chans[k].stream_id = k
                   /\ req'[r].chans[k].category_id = cache.parsed[k].group_title
                   /\ req'[r].chans[k].epg_channel_id = cache.parsed[k].tvg_id
                   /\ req'[r].chans[k].direct_source = cache.parsed[k].direct_source
             /\ cache.m3uText = BodyNews =>
                   /\ Len(req'[r].chans) = 1
                   /\ req'[r].chans[1].name = <<"News">>
                   /\ req'[r].chans[1].category_id = <<"News">>
                   /\ req'[r].chans[1].direct_source = <<"http://stream/1">>]_vars

\* a catalog of two channels, in the order of the playlist
C14_Witness ==
    \E r \in Reqs :
        /\ req[r].pc = "done" /\ req[r].ep = "api" /\ req[r].auth = 1
        /\ Len(req[r].chans) = 2
        /\ req[r].chans[1].direct_source = <<"http://x/b", TokUser, ":", TokPass>>
        /\ req[r].chans[1].category_id = <<"Other">>
        /\ req[r].chans[2].direct_source = <<"http://x/c">>
        /\ req[r].chans[2].category_id = <<"Kids">>
        /\ req[r].chans[2].epg_channel_id = <<"c1">>
        /\ req[r].chans[2].stream_id = 2

\* a fetchM3U call of slot q that has invoked the retrieval and not returned
InFlight(q) == req[q].pc \in {"awaitRes", "awaitBody"}

\* a step of slot r in which the body read of its fetchM3U call resolves
Completes(r) ==
    req[r].pc = "awaitBody" /\ req'[r].pc = "resume" /\ req'[r].err = NullText

\* C17: a fetchM3U call that starts on an empty or expired cache while
\* another call is in flight invokes the retrieval itself, so two such
\* calls make two retrievals; and a call that succeeds after another one
\* has already stored its result replaces text, parse and timestamp by its
\* own: the cache holds what the call that completed last wrote.
C17_LastWriteWins ==
    /\ [](\A r, q \in Reqs : r # q /\ InFlight(r) /\ InFlight(q)
                                => upstreamCalls >= 2)
    /\ [][\A r, q \in Reqs :
             /\ (/\ r # q
                 /\ InFlight(q)
                 /\ FetchStarts(r)
                 /\ \/ cache.m3uText = NullText
                    \/ clock - cache.fetchedAt >= CACHE_TTL_MS)
                => /\ req'[r].pc = "awaitRes"
                   /\ InFlight(q)'
                   /\ upstreamCalls' = upstreamCalls + 1
             /\ (/\ r # q
                 /\ Completes(r)
                 /\ req[q].pc = "resume" /\ req[q].src = "upstream"
                 /\ req[q].ret # NullText)
                => /\ cache'.m3uText = req'[r].ret
                   /\ cache'.parsed = parseM3U(req'[r].ret)
                   /\ cache'.fetchedAt = req[r].now]_vars

\* two calls started together on the empty cache and both succeeded; the
\* cache holds the text of one of them, the other returns a different text
C17_Witness ==
    \E r, q \in Reqs :
        /\ r # q
        /\ req[r].pc = "resume" /\ req[q].pc = "resume"
        /\ req[r].src = "upstream" /\ req[q].src = "upstream"
        /\ req[r].ret = BodyNews /\ req[q].ret = BodyPlain
        /\ upstreamCalls = 2
        /\ cache = [m3uText |-> BodyNews, parsed |-> parseM3U(BodyNews),
                    fetchedAt |-> 1]

\* a step in which slot r takes a request that okUserPass rejects
Rejected(r) ==
    /\ Free(r)
    /\ req'[r] # req[r]
    /\ ~okUserPass(req'[r].user, req'[r].pass)

\* C18: a request that okUserPass rejects, on /get.php or /player_api.php,
\* is answered in the step it arrives in, without a call of fetchM3U: the
\* upstream is not invoked and m3uText, parsed and fetchedAt are unchanged;
\* no request that is waiting for the upstream is a rejected one.
C18_RejectedHasNoEffect ==
    /\ [](\A r \in Reqs :
             ~Free(r) => okUserPass(req[r].user, req[r].pass))
    /\ [][\A r \in Reqs :
             Rejected(r)
             => /\ req'[r].pc = "done"
                /\ req'[r].src = "none"
                /\ req'[r].status = (IF req'[r].ep = "get" THEN 401 ELSE 200)
                /\ upstreamCalls' = upstreamCalls
                /\ cache'.m3uText = cache.m3uText
                /\ cache'.parsed = cache.parsed
                /\ cache'.fetchedAt = cache.fetchedAt]_vars

\* both endpoints have turned a request away while the cached text had
\* expired, and the text is still there with a single retrieval made
C18_Witness ==
    \E r, q \in Reqs :
        /\ req[r].pc = "done" /\ req[r].ep = "get" /\ req[r].status = 401
        /\ req[q].pc = "done" /\ req[q].ep = "api" /\ req[q].auth = 0
        /\ cache.m3uText = BodyNews
        /\ cache.fetchedAt + CACHE_TTL_MS <= clock
        /\ upstreamCalls = 1

\* C19: while the clock does not go back, no write to fetchedAt stores a
\* value smaller than the one it replaces, whatever the interleaving of the
\* fetchM3U calls, and fetchedAt is 0 exactly while no fetch has succeeded.
C19_FetchedAtMonotone ==
    /\ [](cache.fetchedAt = 0 <=> cache.m3uText = NullText)
    /\ [][clock' >= clock /\ cache'.fetchedAt >= cache.fetchedAt]_vars

\* C20: a text returned by fetchM3U is either the one the call has just
\* retrieved itself or the cached one, and the cached one was retrieved by
\* a call that started less than CACHE_TTL_MS before the returning call
\* did: the cache changes only when a call stores its own retrieved text
\* together with its own starting time, a call's starting time is the clock
\* when it starts, and a call answers from the cache only when that stamp
\* is less than CACHE_TTL_MS old.
C20_StalenessBound ==
    /\ [](\A r \in Reqs : InFlight(r) => req[r].now >= 1 /\ req[r].now <= clock)
    /\ [][\A r \in Reqs :
             /\ (FetchStarts(r) /\ req'[r].src = "upstream")
                => req'[r].now = clock /\ req'[r].ret = NullText
             /\ (FetchStarts(r) /\ req'[r].src = "cache")
                => /\ req'[r].ret = cache.m3uText
                   /\ cache.m3uText # NullText
                   /\ clock - cache.fetchedAt < CACHE_TTL_MS
                   /\ cache.fetchedAt <= clock
             /\ Completes(r)
                => /\ req[r].ret = NullText
                   /\ cache'.m3uText = req'[r].ret
                   /\ cache'.fetchedAt = req[r].now
             /\ (req'[r].ret # req[r].ret /\ req'[r].ret # NullText)
                => (FetchStarts(r) /\ req'[r].src = "cache") \/ Completes(r)]_vars
    /\ [][cache' # cache => \E r \in Reqs : Completes(r)]_vars

\* a call is answered from the cache one tick before the text expires
C20_Witness ==
    \E r \in Reqs :
        /\ req[r].pc = "resume" /\ req[r].src = "cache"
        /\ req[r].ret = BodyPlain
        /\ cache.m3uText = BodyPlain
        /\ cache.fetchedAt = 2
        /\ clock = 1 + CACHE_TTL_MS

-----------------------------------------------------------------------------
(* Parser harness: playlists built line by line and handed to parseM3U     *)

MaxLines == 3

\* value of an attribute that the line does not carry
Absent == Undefined

\* key="value", preceded by a blank
RenderAttr(key, val) ==
    IF val = Absent THEN <<>> ELSE <<SP, key, "=", QUOTE>> \o val \o <<QUOTE>>

\* #EXTINF:-1 tvg-id=".." tvg-name=".." group-title="..",title
RenderMeta(m) ==
    <<EXTINF, "-", "1">>
    \o RenderAttr("tvg-id", m.id) \o RenderAttr("tvg-name", m.name)
    \o RenderAttr("group-title", m.group)
    \o (IF m.title = Absent THEN <<>> ELSE <<",", SP>> \o m.title)

MetaShape(name, title, id, group) ==
    [name |-> name, title |-> title, id |-> id, group |-> group]

MetaShapes ==
    { MetaShape(<<"A">>, <<"News", SP, "HD">>, <<"id1">>, <<"G">>),
      MetaShape(<<"B">>, <<"B">>, Absent, Absent),
      MetaShape(<<>>, <<"Show", SP, "X">>, <<"id1">>, <<>>),
      MetaShape(Absent, <<"Show", SP, "X">>, Absent, <<"G">>),
      MetaShape(Absent, <<>>, <<"id1">>, Absent),
      MetaShape(Absent, Absent, <<"id1">>, <<"G">>),
      MetaShape(Absent, <<>>, <<>>, Absent),
      MetaShape(Absent, Absent, Absent, Absent) }

OtherLines ==
    { <<>>, <<SP>>, <<EXTM3U>>, <<"#", "x">>,
      <<"http://x/a">>, <<SP, "http://x/b", SP>> }

LineShapes == {RenderMeta(m) : m \in MetaShapes} \cup OtherLines

\* the three line terminators
Seps == {<<LF>>, <<CR, LF>>, <<CR>>}

RECURSIVE Join(_, _)
Join(ls, s) ==
    IF ls = <<>> THEN <<>>
    ELSE IF Len(ls) = 1 THEN ls[1]
    ELSE ls[1] \o s \o Join(Tail(ls), s)

ParseInit ==
    /\ lines = <<>>
    /\ sep \in Seps
    /\ text = <<>>
    /\ channels = NullList
    /\ ppc = "input"
    /\ ALLOW_USERS = <<>>
    /\ cache = EmptyCache
    /\ clock = 1
    /\ upstreamCalls = 0
    /\ req = [r \in Reqs |-> Idle]

AddLine(l) ==
    /\ ppc = "input"
    /\ Len(lines) < MaxLines
    /\ lines' = Append(lines, l)
    /\ text' = Join(lines', sep)
    /\ UNCHANGED <<sep, channels, ppc, serverVars>>

Parse ==
    /\ ppc = "input"
    /\ channels' = parseM3U(text)
    /\ ppc' = "parsed"
    /\ UNCHANGED <<lines, sep, text, serverVars>>

ParseNext == (\E l \in LineShapes : AddLine(l)) \/ Parse

ParseSpec == ParseInit /\ [][ParseNext]_vars

\* Longer playlists over fewer kinds of line, so that several entries are
\* emitted and metadata lines are dropped between them
MaxEntryLines == 5

EntryLines ==
    { RenderMeta(MetaShape(<<"A">>, <<"News", SP, "HD">>, <<"id1">>, <<"G">>)),
      RenderMeta(MetaShape(Absent, Absent, Absent, Absent)),
      <<"http://x/a">>,
      <<"#", "x">> }

AddEntryLine(l) ==
    /\ ppc = "input"
    /\ Len(lines) < MaxEntryLines
    /\ lines' = Append(lines, l)
    /\ text' = Join(lines', sep)
    /\ UNCHANGED <<sep, channels, ppc, serverVars>>

EntryNext == (\E l \in EntryLines : AddEntryLine(l)) \/ Parse

EntrySpec == ParseInit /\ [][EntryNext]_vars

-----------------------------------------------------------------------------
(* Properties of parseM3U                                                  *)

\* the lines the loop acts on: trimmed and not blank
CodeLines(t) ==
    LET ls == SplitLines(t)
        tr == [i \in 1..Len(ls) |-> Trim(ls[i])]
    IN SelectSeq(tr, LAMBDA l : l # <<>>)

IsMetaLine(l) == StartsWith(l, EXTINF)
IsUrlLine(l) == ~StartsWithHash(l)

\* the metadata line the URL line i is bound to: the closest metadata line
\* above it with nothing but comment lines in between; 0 when there is none
BoundMeta(L, i) ==
    LET cands == {j \in 1..(i - 1) :
                    /\ IsMetaLine(L[j])
                    /\ \A h \in (j + 1)..(i - 1) :
                          StartsWithHash(L[h]) /\ ~IsMetaLine(L[h])}
    IN IF cands = {} THEN 0 ELSE CHOOSE j \in cands : TRUE

\* the URL lines that close an entry
Emitting(L) == {i \in 1..Len(L) : IsUrlLine(L[i]) /\ BoundMeta(L, i) # 0}

\* the k-th smallest element of a set of numbers
Nth(S, k) == CHOOSE i \in S : Cardinality({h \in S : h < i}) = k - 1

\* the metadata lines, as rendered, that a code line can be
RenderedMetas == {Trim(RenderMeta(m)) : m \in MetaShapes}

\* C5: every entry returned by parseM3U has a non-null, non-empty
\* direct_source, and there are no more entries than URL lines: an entry
\* that never receives a URL line is not emitted.
C5_EveryEntryHasUrl ==
    ppc = "parsed" =>
        /\ \A k \in 1..Len(channels) :
              /\ channels[k].direct_source # NullText
              /\ channels[k].direct_source # Undefined
              /\ channels[k].direct_source # <<>>
        /\ LET L == CodeLines(text) IN
              Len(channels) <= Cardinality({i \in 1..Len(L) : IsUrlLine(L[i])})

\* a playlist that ends with a metadata line still pending
C5_Witness ==
    /\ ppc = "parsed"
    /\ sep = <<LF>>
    /\ Len(lines) = 3
    /\ lines[1] \in RenderedMetas
    /\ lines[2] = <<"http://x/a">>
    /\ lines[3] \in RenderedMetas
    /\ Len(channels) = 1

\* C6: a metadata line followed by another metadata line with no URL line
\* in between is dropped: the entries are exactly the URL lines that have a
\* metadata line above them with only comment lines in between, in order,
\* and each takes its URL from that line and its name, title and attributes
\* from the closest metadata line, so a run of metadata lines yields at most
\* one entry, described by the last line of the run.
C6_LastMetadataWins ==
    ppc = "parsed" =>
        LET L == CodeLines(text)
            E == Emitting(L)
        IN /\ Len(channels) = Cardinality(E)
           /\ \A k \in 1..Len(channels) :
                 LET i == Nth(E, k)
                     m == NewCurrent(L[BoundMeta(L, i)])
                 IN /\ channels[k].direct_source = L[i]
                    /\ channels[k].name = m.name
                    /\ channels[k].title = m.title
                    /\ channels[k].tvg_id = Or(Attr(m.attrs, <<"tvg-id">>), NullText)
                    /\ channels[k].group_title =
                          Or(Attr(m.attrs, <<"group-title">>), <<"Other">>)
           /\ \A j \in 1..(Len(L) - 1) :
                 IsMetaLine(L[j]) /\ IsMetaLine(L[j + 1]) =>
                    \A i \in E : BoundMeta(L, i) # j

\* two metadata lines in a row, then a URL: one entry, named by the second
C6_Witness ==
    /\ ppc = "parsed"
    /\ sep = <<LF>>
    /\ lines = << RenderMeta(MetaShape(<<"A">>, <<"News", SP, "HD">>, <<"id1">>, <<"G">>)),
                  RenderMeta(MetaShape(<<"B">>, <<"B">>, Absent, Absent)),
                  <<"http://x/a">> >>
    /\ Len(channels) = 1
    /\ channels[1].name = <<"B">>
    /\ channels[1].direct_source = <<"http://x/a">>

\* the name the precedence rule gives a metadata line
PrecedenceName(m) ==
    IF m.name # Absent /\ m.name # <<>> THEN m.name
    ELSE IF m.title # Absent /\ m.title # <<>> THEN m.title
    ELSE IF m.id # Absent /\ m.id # <<>> THEN m.id
    ELSE <<"Unnamed">>

\* C7: the name of every emitted entry is the tvg-name attribute of its
\* metadata line if present and non-empty, else the title if non-empty,
\* else the tvg-id attribute if present and non-empty, else "Unnamed"; it
\* is never empty.
C7_NamePrecedence ==
    ppc = "parsed" =>
        LET L == CodeLines(text)
            E == Emitting(L)
        IN \A k \in 1..Len(channels) :
              /\ Truthy(channels[k].name)
              /\ k <= Cardinality(E) =>
                    \A m \in MetaShapes :
                       L[BoundMeta(L, Nth(E, k))] = Trim(RenderMeta(m)) =>
                          channels[k].name = PrecedenceName(m)

\* all four levels of the precedence occur in one playlist's worth of entries
C7_Witness ==
    /\ ppc = "parsed"
    /\ sep = <<CR, LF>>
    /\ Len(channels) = 1
    /\ Len(lines) = 2
    /\ lines[1] = RenderMeta(MetaShape(Absent, <<>>, <<"id1">>, Absent))
    /\ channels[1].name = <<"id1">>

\* C12: parseM3U returns the same entry sequence whether the lines of a
\* playlist are joined with LF, with CRLF or with a bare CR, and blank
\* lines are discarded under all three.
C12_AnyLineEnding ==
    ppc = "parsed" =>
        /\ \A s \in Seps : parseM3U(Join(lines, s)) = channels
        /\ LET kept == SelectSeq(lines, LAMBDA l : Trim(l) # <<>>)
           IN parseM3U(Join(kept, sep)) = channels

\* C13: the k-th entry returned by parseM3U has stream_id = k and id = the
\* decimal string of k, so the ids are 1..n, unique and contiguous, n being
\* the number of URL lines that close an entry: a metadata line that is
\* dropped takes no number.
C13_SequenceIds ==
    ppc = "parsed" =>
        /\ \A k \in 1..Len(channels) :
              /\ channels[k].stream_id = k
              /\ channels[k].id = ToStr(k)
        /\ \A j, k \in 1..Len(channels) :
              j # k => /\ channels[j].stream_id # channels[k].stream_id
                       /\ channels[j].id # channels[k].id
        /\ {channels[k].stream_id : k \in 1..Len(channels)}
              = 1..Cardinality(Emitting(CodeLines(text)))

\* a dropped metadata line between two entries: the second entry is number 2
C13_Witness ==
    /\ ppc = "parsed"
    /\ Len(lines) = 5
    /\ IsMetaLine(lines[1]) /\ IsMetaLine(lines[2]) /\ IsMetaLine(lines[4])
    /\ lines[3] = <<"http://x/a">> /\ lines[5] = <<"http://x/a">>
    /\ Len(channels) = 2
    /\ channels[1].id = <<"1">>
    /\ channels[2].stream_id = 2
    /\ channels[2].id = <<"2">>

\* the category the default rule gives a metadata line
DefaultedGroup(m) ==
    IF m.group = Absent \/ m.group = <<>> THEN <<"Other">> ELSE m.group

\* C15: the group_title of every emitted entry is "Other" when its metadata
\* line has no group-title attribute or an empty one, and the value of the
\* attribute otherwise; it is never empty and never null.
C15_CategoryDefault ==
    ppc = "parsed" =>
        LET L == CodeLines(text)
            E == Emitting(L)
        IN \A k \in 1..Len(channels) :
              /\ channels[k].group_title # <<>>
              /\ channels[k].group_title # NullText
              /\ channels[k].group_title # Undefined
              /\ k <= Cardinality(E) =>
                    \A m \in MetaShapes :
                       L[BoundMeta(L, Nth(E, k))] = Trim(RenderMeta(m)) =>
                          channels[k].group_title = DefaultedGroup(m)

\* a metadata line with an empty group-title
C15_Witness ==
    /\ ppc = "parsed"
    /\ sep = <<LF>>
    /\ Len(lines) = 2
    /\ lines[1] = RenderMeta(MetaShape(<<>>, <<"Show", SP, "X">>, <<"id1">>, <<>>))
    /\ lines[2] = <<"http://x/a">>
    /\ Len(channels) = 1
    /\ channels[1].group_title = <<"Other">>

\* the sequence L without its i-th element
Without(L, i) == [k \in 1..(Len(L) - 1) |-> IF k < i THEN L[k] ELSE L[k + 1]]

\* C16: a line that starts with '#' and is not a metadata line is never
\* taken as a URL and does not touch the pending entry, so the parse is the
\* same without it; a line that does not start with '#' and meets no
\* pending entry is ignored, so the parse is the same without it; closing
\* an entry clears the pending one, so no metadata line gives two entries.
C16_PendingSlot ==
    ppc = "parsed" =>
        LET L == CodeLines(text)
            E == Emitting(L)
        IN /\ \A k \in 1..Len(channels) :
                 ~StartsWithHash(channels[k].direct_source)
           /\ \A i \in 1..Len(L) :
                 StartsWithHash(L[i]) /\ ~IsMetaLine(L[i]) =>
                    parseM3U(Join(Without(L, i), <<LF>>)) = channels
           /\ \A i \in 1..Len(L) :
                 IsUrlLine(L[i]) /\ BoundMeta(L, i) = 0 =>
                    parseM3U(Join(Without(L, i), <<LF>>)) = channels
           /\ \A i, j \in E : BoundMeta(L, i) = BoundMeta(L, j) => i = j
           /\ Len(channels) <=
                 Cardinality({j \in 1..Len(L) : IsMetaLine(L[j])})

\* metadata, two comment lines, the URL, and a second URL that meets no
\* pending entry: one entry, with the first URL
C16_Witness ==
    /\ ppc = "parsed"
    /\ sep = <<LF>>
    /\ Len(lines) = 5
    /\ IsMetaLine(lines[1])
    /\ lines[2] = <<"#", "x">> /\ lines[3] = <<"#", "x">>
    /\ lines[4] = <<"http://x/a">> /\ lines[5] = <<"http://x/a">>
    /\ Len(channels) = 1
    /\ channels[1].direct_source = <<"http://x/a">>

====
